---- MODULE Spec2Model ----
(***************************************************************************)
(* A model of the landmark pipeline of v3d-web:                            *)
(*   src/src/worker/pose-processing.ts  (Poses, FilteredVectorLandmark)    *)
(*   src/unnamed/part_001               (onResults, the worker's caller)   *)
(*                                                                         *)
(* Numbers.  The program computes on IEEE doubles; the model computes on   *)
(* integers in fixed point: a coordinate, a cutoff, a smoothing factor and *)
(* a confidence are held in thousandths (0.6 is 600, 0.007 is 7).  The     *)
(* time counter t is a plain integer (the tick mode adds 1 per call).      *)
(* Arrays are functions on 0..n-1, so that an index of the source is the   *)
(* same index here.  An absent optional number (undefined) is Undefined,   *)
(* an absent list is Absent, the null result object is Null.               *)
(***************************************************************************)
EXTENDS Integers, Sequences, FiniteSets, TLC

\* ---------------------------------------------------------------- bounds

\* How many frames one behaviour delivers to process().
MaxFrames == 3

\* How many frames the caller (onResults) is handed in one behaviour.
MaxSubmitted == 2

\* The length of the pose landmark set (33 in MediaPipe): the model keeps the
\* landmarks the code names (inner eyes, mouth corners, hips) and one after them.
POSE_LANDMARK_LENGTH == 7

\* The length of the face landmark set (478 in MediaPipe): the model keeps the
\* landmarks of the reduced sub-region groups below.
FACE_LANDMARK_LENGTH == 37

\* ------------------------------------------------------- absent values

Undefined == -1

Absent == [i \in {-1} |-> "absent"]

Null == [null |-> TRUE]

\* ----------------------------------------------------------- Vector3

Vec(a, b, c) == [x |-> a, y |-> b, z |-> c]

Zero == Vec(0, 0, 0)

VAdd(a, b) == Vec(a.x + b.x, a.y + b.y, a.z + b.z)

VSub(a, b) == Vec(a.x - b.x, a.y - b.y, a.z - b.z)

\* a / b rounded to the nearest integer (b > 0).
RoundDiv(a, b) == (2 * a + b) \div (2 * b)

\* m thousandths times the vector v.
VScaleMilli(v, m) == Vec(RoundDiv(m * v.x, 1000), RoundDiv(m * v.y, 1000), RoundDiv(m * v.z, 1000))

VDivInt(v, n) == Vec(RoundDiv(v.x, n), RoundDiv(v.y, n), RoundDiv(v.z, n))

LengthSquared(v) == v.x * v.x + v.y * v.y + v.z * v.z

RECURSIVE Newton(_, _)
\* Newton's iteration for the integer square root of n, from a guess x >= sqrt(n).
Newton(n, x) ==
    LET y == (x + n \div x) \div 2
    IN  IF y >= x THEN x ELSE Newton(n, y)

\* The integer square root of n (0 <= n < 2^31).
Isqrt(n) ==
    IF n = 0 THEN 0
    ELSE IF n < 1024 THEN Newton(n, 32)
    ELSE IF n < 65536 THEN Newton(n, 256)
    ELSE IF n < 4194304 THEN Newton(n, 2048)
    ELSE IF n < 268435456 THEN Newton(n, 16384)
    ELSE Newton(n, 46341)

Length(v) == Isqrt(LengthSquared(v))

\* --------------------------------------- helper/utils: the two filters
\* (helper/utils is not among the source files; the filters follow the
\* design's description of them.)

\* 2 * pi, in thousandths.
TWO_PI == 6283

\* The fixed cutoff of the derivative's low-pass stage (1.0), in thousandths.
D_CUTOFF == 1000

\* alpha(cutoff) = 1 / (1 + tau / te), tau = 1 / (2 pi cutoff): in thousandths.
SmoothingFactor(te, cutoff) ==
    LET r == RoundDiv(TWO_PI * cutoff * te, 1000)
    IN  RoundDiv(1000 * r, r + 1000)

\* a x + (1 - a) x_prev, a in thousandths.
ExponentialSmoothing(a, x, x_prev) == VAdd(x_prev, VScaleMilli(VSub(x, x_prev), a))

\* new OneEuroVectorFilter(t, x, dx, min_cutoff, beta)
OneEuroVectorFilter(t0, x0, dx0, min_cutoff, beta) ==
    [t_prev |-> t0, x_prev |-> x0, dx_prev |-> dx0,
     min_cutoff |-> min_cutoff, beta |-> beta, started |-> FALSE]

\* OneEuroVectorFilter.next(t, x): the filter after the call; its output is x_prev.
OneEuroNext(f, t, x) ==
    LET te == t - f.t_prev IN
    IF ~f.started
    THEN [f EXCEPT !.t_prev = t, !.x_prev = x, !.dx_prev = Zero, !.started = TRUE]
    ELSE IF te <= 0 THEN f
    ELSE LET a_d    == SmoothingFactor(te, D_CUTOFF)
             dx     == VDivInt(VSub(x, f.x_prev), te)
             edx    == ExponentialSmoothing(a_d, dx, f.dx_prev)
             cutoff == f.min_cutoff + RoundDiv(f.beta * Length(edx), 1000)
             a      == SmoothingFactor(te, cutoff)
             x_hat  == ExponentialSmoothing(a, x, f.x_prev)
         IN  [f EXCEPT !.t_prev = t, !.x_prev = x_hat, !.dx_prev = edx]

\* new EuclideanHighPassFilter(threshold)
EuclideanHighPassFilter(threshold) == [threshold |-> threshold, value |-> Zero]

\* EuclideanHighPassFilter.update(v): the reference snaps to v when v is farther
\* from it than the threshold.
HighPassUpdate(h, v) ==
    IF LengthSquared(VSub(h.value, v)) > h.threshold * h.threshold
    THEN [h EXCEPT !.value = v]
    ELSE h

\* ------------------------------------------------ FilteredVectorLandmark

VISIBILITY_THRESHOLD == 600

\* LandmarkTimeIncrementMode of every landmark: the field is private, set to
\* Universal where it is declared and assigned nowhere else.
TIncrementMode == "Universal"

\* new FilteredVectorLandmark(oneEuroCutoff, oneEuroBeta, highPassThreshold)
FilteredVectorLandmark(oneEuroCutoff, oneEuroBeta, highPassThreshold) ==
    [t |-> 0, pos |-> Zero, visibility |-> 0,
     oneEuroVectorFilter |-> OneEuroVectorFilter(0, Zero, Zero, oneEuroCutoff, oneEuroBeta),
     highPassFilter |-> EuclideanHighPassFilter(highPassThreshold)]

\* The time advance of updatePosition.
AdvanceT(lm, dt) ==
    IF TIncrementMode = "Universal" THEN lm.t + 1
    ELSE IF TIncrementMode = "RealTime" THEN lm.t + dt
    ELSE lm.t

\* A variant of the gate that tests for presence only.
GateAccepts_NoThreshold(visibility) ==
    \/ visibility = Undefined
    \/ visibility >= 0

\* The confidence gate of updatePosition: !visibility || visibility > threshold.
\* (!visibility is true of undefined and of 0.)
GateAccepts(visibility) ==
    \/ visibility = Undefined
    \/ visibility = 0
    \/ visibility > VISIBILITY_THRESHOLD

\* The landmark after its filter chain took pos at time t.
FilterChain(lm, t, pos) ==
    LET f == OneEuroNext(lm.oneEuroVectorFilter, t, pos)
        h == HighPassUpdate(lm.highPassFilter, f.x_prev)
    IN  [lm EXCEPT !.oneEuroVectorFilter = f, !.highPassFilter = h, !.pos = h.value]

\* A variant of updatePosition that advances t on accepted updates only.
UpdatePosition_TOnAccepted(lm, dt, pos, visibility) ==
    IF GateAccepts(visibility)
    THEN [FilterChain([lm EXCEPT !.t = AdvanceT(lm, dt)], AdvanceT(lm, dt), pos)
             EXCEPT !.visibility = visibility]
    ELSE lm

\* FilteredVectorLandmark.updatePosition(dt, pos, visibility)
UpdatePosition(lm, dt, pos, visibility) ==
    LET t  == AdvanceT(lm, dt)
        l1 == [lm EXCEPT !.t = t]
    IN  IF GateAccepts(visibility)
        THEN [FilterChain(l1, t, pos) EXCEPT !.visibility = visibility]
        ELSE l1

\* ------------------------------------------------------------- arrays

\* The array holding the elements of the sequence s, indexed from 0.
Arr(s) == [i \in 0 .. Len(s) - 1 |-> s[i + 1]]

ArrLen(a) == Cardinality(DOMAIN a)

Push(a, v) == [i \in 0 .. ArrLen(a) |-> IF i < ArrLen(a) THEN a[i] ELSE v]

EmptyArr == Arr(<< >>)

\* initArray(length, initializer)
InitArray(length, v) == [i \in 0 .. length - 1 |-> v]

\* ------------------------------------------- @mediapipe/holistic names

\* The indices of the named pose landmarks, in MediaPipe's order (there: 1, 4, 9,
\* 10, 23, 24).  LEFT_RIGHT and RIGHT_LEFT are the mouth's corners.
POSE_LANDMARKS ==
    [LEFT_EYE_INNER |-> 0, RIGHT_EYE_INNER |-> 1, LEFT_RIGHT |-> 2, RIGHT_LEFT |-> 3,
     LEFT_HIP |-> 4, RIGHT_HIP |-> 5]

\* A connection list: the chain from..to, closed by a connection back to from.
Chain(from, to) ==
    [i \in 0 .. to - from |-> IF i < to - from THEN <<from + i, from + i + 1>> ELSE <<to, from>>]

FACEMESH_LEFT_EYEBROW == Chain(0, 1)
FACEMESH_RIGHT_EYEBROW == Chain(2, 3)
FACEMESH_LEFT_EYE == Chain(4, 12)
FACEMESH_RIGHT_EYE == Chain(13, 21)
FACEMESH_LEFT_IRIS == Chain(22, 23)
FACEMESH_RIGHT_IRIS == Chain(24, 25)
FACEMESH_LIPS == Chain(26, 36)

\* ---------------------------------------------------------------- Poses

VARIABLES
    cloneableInputResults,      \* the last results object handed to process(), or Null
    inputPoseLandmarks,         \* the last transformed pose list
    poseLandmarks,              \* the pose set's FilteredVectorLandmarks
    inputFaceLandmarks,         \* the last transformed face list
    faceLandmarks,              \* the face set's FilteredVectorLandmarks
    cloneablePoseLandmarks,     \* the exported pose snapshot
    faceNormals,                \* _faceNormals
    faceMeshLandmarkIndexList,  \* _faceMeshLandmarkIndexList
    faceMeshLandmarkList,       \* _faceMeshLandmarkList
    midHipBase,                 \* the calibration offset
    firstResult,                \* the calibration latch: TRUE until calibrated
    call,                       \* the arguments and the outcome of the last process() call
    nframes                     \* how many process() calls were made

poses == <<cloneableInputResults, inputPoseLandmarks, poseLandmarks, inputFaceLandmarks,
           faceLandmarks, cloneablePoseLandmarks, faceNormals, faceMeshLandmarkIndexList,
           faceMeshLandmarkList, midHipBase, firstResult>>

\* A NormalizedLandmark {x, y, z, visibility?}.
Landmark(a, b, c, v) == [x |-> a, y |-> b, z |-> c, visibility |-> v]

\* normalizedLandmarkToVector(l)
NormalizedLandmarkToVector(l) == Vec(l.x, l.y, l.z)

\* vectorToNormalizedLandmark(v)
VectorToNormalizedLandmark(v) == Landmark(v.x, v.y, v.z, Undefined)

IsPresent(list) == list # Absent

\* (visibility || 0)
OrZero(visibility) == IF visibility = Undefined THEN 0 ELSE visibility

\* ------------------------------------------------- Poses.preProcess...

\* A variant of the transform that adds the offset without flipping the axis.
Transform_NoFlip(resultsLandmarks, offset) ==
    [i \in DOMAIN resultsLandmarks |->
        [resultsLandmarks[i] EXCEPT !.x = @ + offset.x, !.y = @ + offset.y, !.z = @ + offset.z]]

\* The in-place transform of preProcessLandmarks: the vertical axis is flipped
\* and the offset added.
Transform(resultsLandmarks, offset) ==
    [i \in DOMAIN resultsLandmarks |->
        [resultsLandmarks[i] EXCEPT !.x = @ + offset.x, !.y = -@ + offset.y, !.z = @ + offset.z]]

\* preProcessLandmarks throws when the list is longer than the landmark set:
\* filteredLandmarks[i] is undefined there.
PreProcessLandmarksThrows(resultsLandmarks, filteredLandmarks) ==
    ArrLen(resultsLandmarks) > ArrLen(filteredLandmarks)

\* The landmark set after the noise-filtering loop of preProcessLandmarks over
\* the transformed list (up to the index at which it throws, if it does).
PreProcessLandmarks(transformed, filteredLandmarks, dt) ==
    [i \in DOMAIN filteredLandmarks |->
        IF i < ArrLen(transformed)
        THEN UpdatePosition(filteredLandmarks[i], dt,
                            NormalizedLandmarkToVector(transformed[i]),
                            transformed[i].visibility)
        ELSE filteredLandmarks[i]]

\* The calibration test reads the hips' visibility, left to right, stopping at
\* the first false conjunct: it throws on a hip the list does not hold.
HipTestThrows(list, first) ==
    /\ first
    /\ \/ POSE_LANDMARKS.LEFT_HIP >= ArrLen(list)
       \/ /\ OrZero(list[POSE_LANDMARKS.LEFT_HIP].visibility) > VISIBILITY_THRESHOLD
          /\ POSE_LANDMARKS.RIGHT_HIP >= ArrLen(list)

\* A variant of the calibration test without the firstResult latch.
Calibrates_NoLatch(list, first) ==
    /\ POSE_LANDMARKS.RIGHT_HIP < ArrLen(list)
    /\ OrZero(list[POSE_LANDMARKS.LEFT_HIP].visibility) > VISIBILITY_THRESHOLD
    /\ OrZero(list[POSE_LANDMARKS.RIGHT_HIP].visibility) > VISIBILITY_THRESHOLD

\* The calibration test of preProcessResults.
Calibrates(list, first) ==
    /\ first
    /\ ~HipTestThrows(list, first)
    /\ OrZero(list[POSE_LANDMARKS.LEFT_HIP].visibility) > VISIBILITY_THRESHOLD
    /\ OrZero(list[POSE_LANDMARKS.RIGHT_HIP].visibility) > VISIBILITY_THRESHOLD

\* The midpoint of the two hips.
MidHip(list) ==
    VScaleMilli(VAdd(NormalizedLandmarkToVector(list[POSE_LANDMARKS.LEFT_HIP]),
                     NormalizedLandmarkToVector(list[POSE_LANDMARKS.RIGHT_HIP])), 500)

\* The pose half of preProcessResults on a pose input ea that is there.
PreProcessPresentPose(ea, dt) ==
    IF HipTestThrows(ea, firstResult)
    THEN [threw |-> TRUE, ea |-> ea, midHipBase |-> midHipBase, firstResult |-> firstResult,
          poseLandmarks |-> poseLandmarks, inputPoseLandmarks |-> inputPoseLandmarks]
    ELSE LET cal    == Calibrates(ea, firstResult)
             base   == IF cal THEN MidHip(ea) ELSE midHipBase
             moved  == Transform(ea, Vec(0, base.y, 0))
             threw  == PreProcessLandmarksThrows(ea, poseLandmarks)
         IN  [threw |-> threw, ea |-> moved, midHipBase |-> base,
              firstResult |-> IF cal THEN FALSE ELSE firstResult,
              poseLandmarks |-> PreProcessLandmarks(moved, poseLandmarks, dt),
              inputPoseLandmarks |-> IF threw THEN inputPoseLandmarks ELSE moved]

\* A variant of the pose half that re-arms the calibration when ea is absent.
PreProcessPose_AbsentRearms(ea, dt) ==
    IF ~IsPresent(ea)
    THEN [threw |-> FALSE, ea |-> ea, midHipBase |-> Zero, firstResult |-> TRUE,
          poseLandmarks |-> poseLandmarks, inputPoseLandmarks |-> inputPoseLandmarks]
    ELSE PreProcessPresentPose(ea, dt)

\* The pose half of preProcessResults on the pose input ea.
PreProcessPose(ea, dt) ==
    IF ~IsPresent(ea)
    THEN [threw |-> FALSE, ea |-> ea, midHipBase |-> midHipBase, firstResult |-> firstResult,
          poseLandmarks |-> poseLandmarks, inputPoseLandmarks |-> inputPoseLandmarks]
    ELSE PreProcessPresentPose(ea, dt)

\* The face half of preProcessResults.
PreProcessFace(list, dt) ==
    IF ~IsPresent(list)
    THEN [threw |-> FALSE, list |-> list, faceLandmarks |-> faceLandmarks,
          inputFaceLandmarks |-> inputFaceLandmarks]
    ELSE LET moved == Transform(list, Zero)
             threw == PreProcessLandmarksThrows(list, faceLandmarks)
         IN  [threw |-> threw, list |-> moved,
              faceLandmarks |-> PreProcessLandmarks(moved, faceLandmarks, dt),
              inputFaceLandmarks |-> IF threw THEN inputFaceLandmarks ELSE moved]

\* ----------------------------------------------- Poses.calcFaceNormal

\* Vector3.cross.  The products are kept exact (a product of two thousandths is
\* in millionths), so that the cross product is zero exactly when the program's
\* is: the only use of the result is its direction.
Cross(a, b) ==
    Vec(a.y * b.z - a.z * b.y,
        a.z * b.x - a.x * b.z,
        a.x * b.y - a.y * b.x)

Abs(n) == IF n < 0 THEN 0 - n ELSE n

\* The largest magnitude among the components of v.
MaxAbs(v) ==
    LET m == IF Abs(v.x) > Abs(v.y) THEN Abs(v.x) ELSE Abs(v.y)
    IN  IF m > Abs(v.z) THEN m ELSE Abs(v.z)

\* v brought into the range where its squared length fits the integers: the
\* direction is kept, and a vector that is not zero stays not zero.
Rescaled(v) ==
    LET k == (MaxAbs(v) \div 16384) + 1
    IN  IF k = 1 THEN v ELSE Vec(RoundDiv(v.x, k), RoundDiv(v.y, k), RoundDiv(v.z, k))

\* A variant of normalize that makes some unit vector of the zero vector.
Normalize_ZeroToAxis(v) ==
    LET w   == Rescaled(v)
        len == Length(w)
    IN  IF len = 0 THEN Vec(1000, 0, 0)
        ELSE Vec(RoundDiv(1000 * w.x, len), RoundDiv(1000 * w.y, len), RoundDiv(1000 * w.z, len))

\* Vector3.normalize: a vector of length 0 is left as it is; any other is
\* scaled to length 1 (1000 thousandths).
Normalize(v) ==
    LET w   == Rescaled(v)
        len == Length(w)
    IN  IF len = 0 THEN v
        ELSE Vec(RoundDiv(1000 * w.x, len), RoundDiv(1000 * w.y, len), RoundDiv(1000 * w.z, len))

\* A variant of normalFromVertices that always takes the vertices in reverse.
NormalFromVertices_Reversed(vertices, reverse) ==
    Normalize(Cross(VSub(vertices[2].pos, vertices[3].pos),
                    VSub(vertices[1].pos, vertices[2].pos)))

\* Poses.normalFromVertices(vertices, reverse): vertices are three landmarks.
NormalFromVertices(vertices, reverse) ==
    LET v    == IF reverse THEN <<vertices[3], vertices[2], vertices[1]>> ELSE vertices
        vec0 == VSub(v[2].pos, v[1].pos)
        vec1 == VSub(v[3].pos, v[2].pos)
    IN  Normalize(Cross(vec0, vec1))

\* The four triangles of calcFaceNormal, each in its winding order.
Vertices(left_eye_inner, right_eye_inner, mouth_left, mouth_right) ==
    << <<left_eye_inner, mouth_left, right_eye_inner>>,
       <<right_eye_inner, left_eye_inner, mouth_right>>,
       <<mouth_left, mouth_right, right_eye_inner>>,
       <<mouth_left, mouth_right, left_eye_inner>> >>

\* The normalized sum of the normals of the triangles of calcFaceNormal.
NormalOfKeyPoints(left_eye_inner, right_eye_inner, mouth_left, mouth_right) ==
    LET vertices == Vertices(left_eye_inner, right_eye_inner, mouth_left, mouth_right)
        reverse  == FALSE
        n(i)     == NormalFromVertices(vertices[i], reverse)
    IN  Normalize(VAdd(VAdd(VAdd(VAdd(Zero, n(1)), n(2)), n(3)), n(4)))

faceMeshConnections ==
    Arr(<<FACEMESH_LEFT_EYEBROW, FACEMESH_RIGHT_EYEBROW,
          FACEMESH_LEFT_EYE, FACEMESH_RIGHT_EYE,
          FACEMESH_LEFT_IRIS, FACEMESH_RIGHT_IRIS,
          FACEMESH_LIPS>>)

RECURSIVE AddAll(_, _, _)
\* The array of a Set to which the ends of the connections i, i+1, ... are added
\* in turn: an index is kept where it is first met.
AddAll(conn, i, acc) ==
    IF i >= ArrLen(conn) THEN acc
    ELSE LET has(a, v) == \E k \in DOMAIN a : a[k] = v
             a1 == IF has(acc, conn[i][1]) THEN acc ELSE Push(acc, conn[i][1])
             a2 == IF has(a1, conn[i][2]) THEN a1 ELSE Push(a1, conn[i][2])
         IN  AddAll(conn, i + 1, a2)

\* Array.from(idx) of one connection list.
IdxArr(conn) == AddAll(conn, 0, EmptyArr)

\* _faceMeshLandmarkIndexList as calcFaceNormal rebuilds it.
BuildIndexList == [g \in DOMAIN faceMeshConnections |-> IdxArr(faceMeshConnections[g])]

\* The point calcFaceNormal exports for the face landmark lm.
MeshPoint(lm) == Landmark(lm.pos.x, lm.pos.y, lm.pos.x, lm.visibility)

\* _faceMeshLandmarkList as calcFaceNormal rebuilds it from the face set.
BuildMeshList(indexList, face) ==
    [g \in DOMAIN indexList |-> [j \in DOMAIN indexList[g] |-> MeshPoint(face[indexList[g][j]])]]

\* The normal from the pose set's eye and mouth landmarks.
PoseSourceNormal(pose) ==
    NormalOfKeyPoints(pose[POSE_LANDMARKS.LEFT_EYE_INNER], pose[POSE_LANDMARKS.RIGHT_EYE_INNER],
                      pose[POSE_LANDMARKS.LEFT_RIGHT], pose[POSE_LANDMARKS.RIGHT_LEFT])

\* The normal from the face set's key points.
FaceSourceNormal(indexList, face) ==
    NormalOfKeyPoints(face[indexList[2][8]], face[indexList[3][8]],
                      face[indexList[6][10]], face[indexList[6][0]])

\* calcFaceNormal on the input results and the filtered sets pose and face.
CalcFaceNormal(results, pose, face) ==
    IF ~IsPresent(results.faceLandmarks)
    THEN IF ~IsPresent(results.poseLandmarks)
         THEN [faceNormals |-> faceNormals, indexList |-> faceMeshLandmarkIndexList,
               list |-> faceMeshLandmarkList]
         ELSE [faceNormals |-> Arr(<<VectorToNormalizedLandmark(PoseSourceNormal(pose))>>),
               indexList |-> faceMeshLandmarkIndexList, list |-> faceMeshLandmarkList]
    ELSE LET indexList == BuildIndexList
         IN  [faceNormals |-> Arr(<<VectorToNormalizedLandmark(FaceSourceNormal(indexList, face))>>),
              indexList |-> indexList, list |-> BuildMeshList(indexList, face)]

\* A variant of the snapshot that copies the positions only.
PostPoseLandmarks_PositionsOnly(snapshot, pose) ==
    [idx \in DOMAIN snapshot |->
        Landmark(pose[idx].pos.x, pose[idx].pos.y, pose[idx].pos.z, snapshot[idx].visibility)]

\* postPoseLandmarks: the snapshot of the pose set.
PostPoseLandmarks(snapshot, pose) ==
    [idx \in DOMAIN snapshot |->
        Landmark(pose[idx].pos.x, pose[idx].pos.y, pose[idx].pos.z, pose[idx].visibility)]

\* --------------------------------------------------------- Poses.process

\* The face half of preProcessResults after the pose half p: not reached when
\* the pose half threw.
FaceAfterPose(p, list, dt) ==
    IF p.threw
    THEN [threw |-> TRUE, list |-> list, faceLandmarks |-> faceLandmarks,
          inputFaceLandmarks |-> inputFaceLandmarks]
    ELSE PreProcessFace(list, dt)

\* The effect of process(results, dt) on the Poses instance.  A TypeError thrown
\* inside leaves the assignments made before it and skips the rest of the call.
ProcessEffect(results, dt) ==
    /\ nframes' = nframes + 1
    /\ IF results = Null
       THEN /\ cloneableInputResults' = Null
            /\ call' = [results |-> results, outcome |-> "returned"]
            /\ UNCHANGED <<inputPoseLandmarks, poseLandmarks, inputFaceLandmarks, faceLandmarks,
                           cloneablePoseLandmarks, faceNormals, faceMeshLandmarkIndexList,
                           faceMeshLandmarkList, midHipBase, firstResult>>
       ELSE \E p \in {PreProcessPose(results.ea, dt)} :
            \E f \in {FaceAfterPose(p, results.faceLandmarks, dt)} :
            \E c \in {CalcFaceNormal([results EXCEPT !.ea = p.ea, !.faceLandmarks = f.list],
                                     p.poseLandmarks, f.faceLandmarks)} :
                /\ cloneableInputResults' = [results EXCEPT !.ea = p.ea, !.faceLandmarks = f.list]
                /\ midHipBase' = p.midHipBase
                /\ firstResult' = p.firstResult
                /\ poseLandmarks' = p.poseLandmarks
                /\ inputPoseLandmarks' = p.inputPoseLandmarks
                /\ faceLandmarks' = f.faceLandmarks
                /\ inputFaceLandmarks' = f.inputFaceLandmarks
                /\ call' = [results |-> results,
                            outcome |-> IF f.threw THEN "threw" ELSE "returned"]
                /\ IF f.threw
                   THEN UNCHANGED <<faceNormals, faceMeshLandmarkIndexList, faceMeshLandmarkList,
                                    cloneablePoseLandmarks>>
                   ELSE /\ faceNormals' = c.faceNormals
                        /\ faceMeshLandmarkIndexList' = c.indexList
                        /\ faceMeshLandmarkList' = c.list
                        /\ cloneablePoseLandmarks' =
                               PostPoseLandmarks(cloneablePoseLandmarks, p.poseLandmarks)

\* ------------------------------------------------------------- inputs

\* Raw pose positions: arrangement "A" is frontal, "B" is turned; the hips'
\* vertical coordinates differ between the two.
PoseTable(p) ==
    IF p = "A"
    THEN Arr(<<Vec(600, 200, -200), Vec(400, 200, -200), Vec(620, 400, -200), Vec(380, 400, -200),
               Vec(700, 600, 0), Vec(300, 620, 20), Vec(700, 900, 40)>>)
    ELSE Arr(<<Vec(650, 220, -100), Vec(450, 180, -250), Vec(640, 420, -120), Vec(420, 380, -260),
               Vec(680, 500, 10), Vec(320, 540, -10), Vec(650, 880, 30)>>)

\* Confidences per index: "high" calibrates; "mixed" has every kind of value and
\* a low right hip; "low" is 0.3 but for the right hip.
VisTable(v) ==
    IF v = "high" THEN Arr(<<900, 900, 900, 900, 900, 900, Undefined>>)
    ELSE IF v = "mixed" THEN Arr(<<0, 300, 600, 900, 900, 300, 601>>)
    ELSE Arr(<<300, 300, 300, 300, 300, 900, 300>>)

\* A pose list of length n.
PoseList(p, v, n) ==
    [i \in 0 .. n - 1 |->
        LET pt  == IF i \in DOMAIN PoseTable(p) THEN PoseTable(p)[i] ELSE Vec(500, 900 + i, 0)
            vis == IF i \in DOMAIN VisTable(v) THEN VisTable(v)[i] ELSE 900
        IN  Landmark(pt.x, pt.y, pt.z, vis)]

\* A face list (face mesh landmarks carry no visibility).
FaceList(p) ==
    [i \in 0 .. FACE_LANDMARK_LENGTH - 1 |->
        IF p = "A"
        THEN CASE i = 12 -> Landmark(600, 300, -50, Undefined)
               [] i = 21 -> Landmark(400, 300, -50, Undefined)
               [] i = 36 -> Landmark(620, 550, -50, Undefined)
               [] i = 26 -> Landmark(380, 550, -50, Undefined)
               [] OTHER  -> Landmark(300 + 10 * i, 250 + 5 * i, 10 + i, Undefined)
        ELSE CASE i = 12 -> Landmark(650, 300, -150, Undefined)
               [] i = 21 -> Landmark(450, 320, 50, Undefined)
               [] i = 36 -> Landmark(640, 560, -120, Undefined)
               [] i = 26 -> Landmark(420, 540, 60, Undefined)
               [] OTHER  -> Landmark(320 + 10 * i, 240 + 5 * i, 15 + i, Undefined)]

Results(ea, pose, face) == [ea |-> ea, poseLandmarks |-> pose, faceLandmarks |-> face]

\* The pose list lengths that differ from POSE_LANDMARK_LENGTH: without the
\* hips, one short, one long.
WrongLengths == {POSE_LANDMARKS.LEFT_HIP, POSE_LANDMARK_LENGTH - 1, POSE_LANDMARK_LENGTH + 1}

WellFormedFrames ==
    LET n == POSE_LANDMARK_LENGTH
        P == PoseList("A", "high", n)
    IN  { Results(Absent, Absent, Absent),
          Results(PoseList("A", "high", n), P, Absent),
          Results(PoseList("B", "high", n), P, Absent),
          Results(PoseList("B", "mixed", n), P, Absent),
          Results(PoseList("A", "low", n), P, Absent),
          Results(Absent, Absent, FaceList("A")),
          Results(PoseList("A", "high", n), P, FaceList("B")),
          Results(Absent, P, Absent) }

MalformedFrames ==
    { Results(PoseList("B", "high", n), PoseList("A", "high", POSE_LANDMARK_LENGTH), Absent) :
        n \in WrongLengths }

\* What process() is called with.
Frames == {Null} \cup WellFormedFrames \cup MalformedFrames

\* Inter-frame times, in milliseconds.
DtValues == {16, 33}

\* ------------------------------------------ onResults and the worker

VARIABLES
    requests,     \* the messages posted to the worker, in order
    responses,    \* the worker's answers on their way back, in order
    callbacks     \* per frame handed to onResults: where its promise chain stands

worker == <<requests, responses, callbacks>>

vars == <<poses, call, nframes, worker>>

\* The properties onResults reads back, in the order it awaits them.
Reads == <<"cloneablePoseLandmarks", "faceNormals", "faceMeshLandmarkIndexList",
           "faceMeshLandmarkList">>

Property(name) ==
    CASE name = "cloneablePoseLandmarks" -> cloneablePoseLandmarks
      [] name = "faceNormals" -> faceNormals
      [] name = "faceMeshLandmarkIndexList" -> faceMeshLandmarkIndexList
      [] name = "faceMeshLandmarkList" -> faceMeshLandmarkList

Init ==
    /\ cloneableInputResults = Null
    /\ inputPoseLandmarks = InitArray(POSE_LANDMARK_LENGTH, Landmark(0, 0, 0, Undefined))
    /\ poseLandmarks = InitArray(POSE_LANDMARK_LENGTH, FilteredVectorLandmark(10, 2000, 7))
    /\ inputFaceLandmarks = InitArray(FACE_LANDMARK_LENGTH, Landmark(0, 0, 0, Undefined))
    /\ faceLandmarks = InitArray(FACE_LANDMARK_LENGTH, FilteredVectorLandmark(20, 10000, 3))
    /\ cloneablePoseLandmarks = InitArray(POSE_LANDMARK_LENGTH, Landmark(0, 0, 0, Undefined))
    /\ faceNormals = EmptyArr
    /\ faceMeshLandmarkIndexList = EmptyArr
    /\ faceMeshLandmarkList = EmptyArr
    /\ midHipBase = Zero
    /\ firstResult = TRUE
    /\ call = [results |-> Null, outcome |-> "none"]
    /\ nframes = 0
    /\ requests = << >>
    /\ responses = << >>
    /\ callbacks = EmptyArr

\* process(results, dt), called on the instance.
Process(results, dt) ==
    /\ nframes < MaxFrames
    /\ ProcessEffect(results, dt)
    /\ UNCHANGED worker

Next == \E results \in Frames, dt \in DtValues : Process(results, dt)

Spec == Init /\ [][Next]_vars

\* ------------------------------------- frontal arrangements of the key points

\* Symmetric, coplanar, frontal arrangements of the four key points, in image
\* coordinates (y grows downward): the inner eye corners at height eyeY and
\* halfEye to either side of the centre line, the mouth corners drop below them
\* and halfMouth to either side, all at one depth.
Arrangements ==
    [halfEye : {50, 100, 150}, halfMouth : {60, 100, 140}, centre : {450, 500},
     eyeY : {200, 300}, drop : {150, 250}, depth : {-100, 0, 50}]

\* The four key points of the arrangement q: the subject's left is at the larger x.
ArrangedPoint(q, k) ==
    CASE k = "left_eye_inner"  -> Vec(q.centre + q.halfEye, q.eyeY, q.depth)
      [] k = "right_eye_inner" -> Vec(q.centre - q.halfEye, q.eyeY, q.depth)
      [] k = "mouth_left"      -> Vec(q.centre + q.halfMouth, q.eyeY + q.drop, q.depth)
      [] k = "mouth_right"     -> Vec(q.centre - q.halfMouth, q.eyeY + q.drop, q.depth)

\* The names of the four key points.
KeyNames == {"left_eye_inner", "right_eye_inner", "mouth_left", "mouth_right"}

\* A pose list that holds the points pt (one per key name) at the eye and mouth
\* landmarks, with high confidence.
PlacedPoseList(pt) ==
    [i \in 0 .. POSE_LANDMARK_LENGTH - 1 |->
        LET at(k) == Landmark(pt[k].x, pt[k].y, pt[k].z, 900)
        IN  CASE i = POSE_LANDMARKS.LEFT_EYE_INNER  -> at("left_eye_inner")
              [] i = POSE_LANDMARKS.RIGHT_EYE_INNER -> at("right_eye_inner")
              [] i = POSE_LANDMARKS.LEFT_RIGHT      -> at("mouth_left")
              [] i = POSE_LANDMARKS.RIGHT_LEFT      -> at("mouth_right")
              [] OTHER -> PoseList("A", "high", POSE_LANDMARK_LENGTH)[i]]

\* A face list that holds the points pt at the key points of the face path.
PlacedFaceList(pt) ==
    [i \in 0 .. FACE_LANDMARK_LENGTH - 1 |->
        LET at(k) == Landmark(pt[k].x, pt[k].y, pt[k].z, Undefined)
        IN  CASE i = BuildIndexList[2][8]  -> at("left_eye_inner")
              [] i = BuildIndexList[3][8]  -> at("right_eye_inner")
              [] i = BuildIndexList[6][10] -> at("mouth_left")
              [] i = BuildIndexList[6][0]  -> at("mouth_right")
              [] OTHER -> FaceList("A")[i]]

\* The frames that hold the points pt, on the pose path and on the face path.
PlacedFrames(pt) ==
    { Results(PlacedPoseList(pt), PlacedPoseList(pt), Absent),
      Results(Absent, Absent, PlacedFaceList(pt)) }

\* A pose list that holds the arrangement q at the eye and mouth landmarks.
ArrangedPoseList(q) == PlacedPoseList([k \in KeyNames |-> ArrangedPoint(q, k)])

\* A face list that holds the arrangement q at the key points of the face path.
ArrangedFaceList(q) == PlacedFaceList([k \in KeyNames |-> ArrangedPoint(q, k)])

\* The frames that hold an arrangement, on the pose path and on the face path.
ArrangedFrames ==
    { Results(ArrangedPoseList(q), ArrangedPoseList(q), Absent) : q \in Arrangements }
    \cup { Results(Absent, Absent, ArrangedFaceList(q)) : q \in Arrangements }

\* The first process() call on a fresh instance, with an arranged frame: the
\* filters hand on the transformed positions as they are.
ProcessArranged(results, dt) ==
    /\ call.outcome = "none"
    /\ ProcessEffect(results, dt)
    /\ UNCHANGED worker

NextNormal == \E results \in ArrangedFrames, dt \in DtValues : ProcessArranged(results, dt)

SpecNormal == Init /\ [][NextNormal]_vars

\* ------------------------------------------- degenerate sets of key points

\* Where a key point may lie: three points on one line and one off it.
KeyPlaces ==
    {Vec(500, 500, 0), Vec(600, 300, -50), Vec(700, 100, -100), Vec(400, 300, -50)}

\* Every placement of the four key points: points may coincide or be collinear.
DegenerateFrames == UNION { PlacedFrames(pt) : pt \in [KeyNames -> KeyPlaces] }

NextDegenerate ==
    \E results \in DegenerateFrames, dt \in DtValues : ProcessArranged(results, dt)

SpecDegenerate == Init /\ [][NextDegenerate]_vars

\* ------------------------------------------------- updateFilterParameters

\* JavaScript's truthiness of an optional number: undefined and 0 are falsy.
Truthy(n) == n # Undefined /\ n # 0

\* FilteredVectorLandmark.updateFilterParameters(min_cutoff?, beta?).
UpdateFilterParameters(lm, min_cutoff, beta) ==
    [lm EXCEPT !.oneEuroVectorFilter.min_cutoff = IF Truthy(min_cutoff) THEN min_cutoff ELSE @,
               !.oneEuroVectorFilter.beta = IF Truthy(beta) THEN beta ELSE @]

\* The pose landmarks whose parameters are set.
ParameterLandmarks == {POSE_LANDMARKS.LEFT_EYE_INNER, POSE_LANDMARKS.RIGHT_HIP}

\* The arguments of updateFilterParameters: omitted, or a value in thousandths.
MinCutoffValues == {Undefined, 5, 20}

BetaValues == {Undefined, 0, 3000}

\* updateFilterParameters(min_cutoff, beta) called on pose landmark i.
CallUpdateFilterParameters(i, min_cutoff, beta) ==
    /\ poseLandmarks' = [poseLandmarks EXCEPT ![i] = UpdateFilterParameters(@, min_cutoff, beta)]
    /\ call' = [results |-> Null, outcome |-> "set", index |-> i,
                min_cutoff |-> min_cutoff, beta |-> beta]
    /\ UNCHANGED <<cloneableInputResults, inputPoseLandmarks, inputFaceLandmarks, faceLandmarks,
                   cloneablePoseLandmarks, faceNormals, faceMeshLandmarkIndexList,
                   faceMeshLandmarkList, midHipBase, firstResult, nframes, worker>>

\* Frames between the calls of updateFilterParameters.
ParameterFrames ==
    { Results(PoseList("A", "high", POSE_LANDMARK_LENGTH),
              PoseList("A", "high", POSE_LANDMARK_LENGTH), Absent),
      Results(PoseList("B", "mixed", POSE_LANDMARK_LENGTH),
              PoseList("A", "high", POSE_LANDMARK_LENGTH), Absent) }

NextParameters ==
    \/ \E results \in ParameterFrames, dt \in DtValues : Process(results, dt)
    \/ \E i \in ParameterLandmarks, min_cutoff \in MinCutoffValues, beta \in BetaValues :
          CallUpdateFilterParameters(i, min_cutoff, beta)

SpecParameters == Init /\ [][NextParameters]_vars

\* ------------------------------------------------------------ the caller

\* What MediaPipe hands to onResults: a results object, never null.
WorkerFrames ==
    { Results(PoseList("A", "high", POSE_LANDMARK_LENGTH),
              PoseList("A", "high", POSE_LANDMARK_LENGTH), FaceList("B")),
      Results(PoseList("B", "mixed", POSE_LANDMARK_LENGTH),
              PoseList("A", "high", POSE_LANDMARK_LENGTH), Absent),
      Results(PoseList("B", "high", POSE_LANDMARK_LENGTH + 1),
              PoseList("A", "high", POSE_LANDMARK_LENGTH), Absent) }

\* onResults(results, ...): dt is sampled and workerPose.process(results, dt) is
\* posted to the worker; the promise's callback waits for the answer.
OnResults(results, dt) ==
    /\ ArrLen(callbacks) < MaxSubmitted
    /\ requests' = Append(requests, [id |-> ArrLen(callbacks), type |-> "APPLY",
                                     results |-> results, dt |-> dt, name |-> "process"])
    /\ callbacks' = Push(callbacks, [pc |-> "awaitProcess", reads |-> << >>])
    /\ UNCHANGED <<poses, call, nframes, responses>>

\* The worker takes its next message: it runs process() to its end, or reads
\* the property asked for, and posts the answer.
WorkerHandle ==
    /\ requests # << >>
    /\ LET m == Head(requests)
       IN  /\ requests' = Tail(requests)
           /\ IF m.type = "APPLY"
              THEN /\ ProcessEffect(m.results, m.dt)
                   /\ responses' = Append(responses,
                          [id |-> m.id, type |-> m.type, ok |-> call'.outcome = "returned",
                           value |-> Undefined])
              ELSE /\ responses' = Append(responses,
                          [id |-> m.id, type |-> m.type, ok |-> TRUE, value |-> Property(m.name)])
                   /\ UNCHANGED <<poses, call, nframes>>
    /\ UNCHANGED callbacks

\* The next GET request of the callback of frame id, after n reads.
GetRequest(id, n) ==
    [id |-> id, type |-> "GET", results |-> Null, dt |-> 0, name |-> Reads[n + 1]]

\* The main thread takes the worker's next answer and resumes the callback that
\* awaits it: a fulfilled process() starts the reads, each read is followed by
\* the next, a rejected process() runs no callback (then() has no handler for it).
MainReceive ==
    /\ responses # << >>
    /\ LET r  == Head(responses)
           cb == callbacks[r.id]
       IN  /\ responses' = Tail(responses)
           /\ IF r.type = "APPLY"
              THEN IF r.ok
                   THEN /\ callbacks' = [callbacks EXCEPT ![r.id].pc = "awaitRead"]
                        /\ requests' = Append(requests, GetRequest(r.id, 0))
                   ELSE /\ callbacks' = [callbacks EXCEPT ![r.id].pc = "rejected"]
                        /\ UNCHANGED requests
              ELSE LET reads == Append(cb.reads, r.value)
                   IN  IF Len(reads) < Len(Reads)
                       THEN /\ callbacks' = [callbacks EXCEPT ![r.id].reads = reads]
                            /\ requests' = Append(requests, GetRequest(r.id, Len(reads)))
                       ELSE /\ callbacks' = [callbacks EXCEPT ![r.id].reads = reads,
                                                              ![r.id].pc = "done"]
                            /\ UNCHANGED requests
    /\ UNCHANGED <<poses, call, nframes>>

NextWorker ==
    \/ \E results \in WorkerFrames, dt \in DtValues : OnResults(results, dt)
    \/ WorkerHandle
    \/ MainReceive

SpecWorker == Init /\ [][NextWorker]_vars

\* ====================================================================
\* The properties.
\*
\* A step of process() is a step that counts one more call; call' holds its
\* arguments as they were passed (the lists before the in-place transform) and
\* cloneableInputResults' the same lists after the transform.

IsProcessStep == nframes' = nframes + 1

\* The step's results object is not null and holds the pose input ea.
HasEa == call'.results # Null /\ IsPresent(call'.results.ea)

\* The step's results object is not null and holds the face mesh list.
HasFace == call'.results # Null /\ IsPresent(call'.results.faceLandmarks)

\* The step's pose input throws in the calibration test, before the list is
\* transformed and filtered.
EaThrowsEarly == HasEa /\ HipTestThrows(call'.results.ea, firstResult)

\* updatePosition is called on pose landmark i in the step.
PoseUpdateCalled(i) ==
    /\ HasEa
    /\ ~EaThrowsEarly
    /\ i \in DOMAIN poseLandmarks
    /\ i < ArrLen(call'.results.ea)

\* The step throws in the pose half of preProcessResults, so that the face half
\* is not reached.
PoseHalfThrows == HasEa /\ (EaThrowsEarly \/ ArrLen(call'.results.ea) > ArrLen(poseLandmarks))

\* updatePosition is called on face landmark i in the step.
FaceUpdateCalled(i) ==
    /\ HasFace
    /\ ~PoseHalfThrows
    /\ i \in DOMAIN faceLandmarks
    /\ i < ArrLen(call'.results.faceLandmarks)

\* What updatePosition is handed for pose landmark i: the transformed entry.
PoseGiven(i) == cloneableInputResults'.ea[i]

\* The landmark's position and stored confidence are left as they were.
Frozen(before, after) == after.pos = before.pos /\ after.visibility = before.visibility

\* The landmark's position is the filter chain's output for the given entry,
\* and its stored confidence the given one.
Replaced(before, after, given) ==
    /\ after.pos = FilterChain([before EXCEPT !.t = after.t], after.t,
                               NormalizedLandmarkToVector(given)).pos
    /\ after.visibility = given.visibility

\* C1 (as claimed): updatePosition skips the update if and only if a confidence
\* is present and strictly below 0.6: every present c in [0, 0.6), c = 0
\* included, leaves position and stored confidence as they were; an absent
\* confidence and every c >= 0.6, c = 0.6 included, replaces the position by the
\* filter chain's output and stores the given confidence.
C1_SkipsIffPresentAndBelowThreshold ==
    [][IsProcessStep =>
        \A i \in DOMAIN poseLandmarks :
            PoseUpdateCalled(i) =>
                IF PoseGiven(i).visibility # Undefined
                   /\ PoseGiven(i).visibility < VISIBILITY_THRESHOLD
                THEN Frozen(poseLandmarks[i], poseLandmarks'[i])
                ELSE Replaced(poseLandmarks[i], poseLandmarks'[i], PoseGiven(i))]_vars

\* C2 (as claimed): a call of updatePosition that the confidence gate rejects
\* leaves the landmark's time counter t unchanged.
C2_RejectedCallLeavesT ==
    [][IsProcessStep =>
        \A i \in DOMAIN poseLandmarks :
            (PoseUpdateCalled(i) /\ ~GateAccepts(PoseGiven(i).visibility))
                => poseLandmarks'[i].t = poseLandmarks[i].t]_vars

\* C2 (amended): t advances by exactly 1 on every call of updatePosition, accepted
\* or rejected, and on no other occasion: a landmark's t is the number of calls
\* made on it, not the number of accepted ones.
C2_TAdvancesOnEveryCall ==
    [][/\ \A i \in DOMAIN poseLandmarks :
            poseLandmarks'[i].t =
                IF IsProcessStep /\ PoseUpdateCalled(i)
                THEN poseLandmarks[i].t + 1 ELSE poseLandmarks[i].t
       /\ \A i \in DOMAIN faceLandmarks :
            faceLandmarks'[i].t =
                IF IsProcessStep /\ FaceUpdateCalled(i)
                THEN faceLandmarks[i].t + 1 ELSE faceLandmarks[i].t]_vars

\* C2's case: the last call on a pose landmark was rejected by the gate, and the
\* landmark's t is past the time of its last accepted update.
C2_RejectedCallAdvancedT ==
    /\ call.results # Null
    /\ IsPresent(call.results.ea)
    /\ \E i \in DOMAIN poseLandmarks \cap DOMAIN call.results.ea :
        /\ ~GateAccepts(call.results.ea[i].visibility)
        /\ poseLandmarks[i].oneEuroVectorFilter.started
        /\ poseLandmarks[i].t > poseLandmarks[i].oneEuroVectorFilter.t_prev

\* Both hips of the step's pose input are there with confidence above the threshold.
HipsQualify ==
    /\ HasEa
    /\ POSE_LANDMARKS.LEFT_HIP \in DOMAIN call'.results.ea
    /\ POSE_LANDMARKS.RIGHT_HIP \in DOMAIN call'.results.ea
    /\ OrZero(call'.results.ea[POSE_LANDMARKS.LEFT_HIP].visibility) > VISIBILITY_THRESHOLD
    /\ OrZero(call'.results.ea[POSE_LANDMARKS.RIGHT_HIP].visibility) > VISIBILITY_THRESHOLD

\* C3: calibration happens at most once.  Until a process() frame has both hips
\* of the pose input above the threshold the offset is zero; the first such frame
\* records the midpoint of the hips' vertical coordinates; from then on no frame
\* changes the offset or re-arms the latch, whatever its hips; and every pose
\* transform flips the vertical coordinate and adds the offset then in force.
C3_CalibratesOnce ==
    /\ [](firstResult => midHipBase = Zero)
    /\ [][/\ ~firstResult => (midHipBase' = midHipBase /\ ~firstResult')
          /\ (firstResult /\ IsProcessStep /\ HipsQualify) =>
                /\ ~firstResult'
                /\ 2 * midHipBase'.y = call'.results.ea[POSE_LANDMARKS.LEFT_HIP].y
                                       + call'.results.ea[POSE_LANDMARKS.RIGHT_HIP].y
          /\ (firstResult /\ ~(IsProcessStep /\ HipsQualify)) =>
                (midHipBase' = midHipBase /\ firstResult')
          /\ (IsProcessStep /\ HasEa /\ ~EaThrowsEarly) =>
                \A i \in DOMAIN call'.results.ea :
                    PoseGiven(i).y = -call'.results.ea[i].y + midHipBase'.y]_vars

\* C3's case: the instance is calibrated and the last frame's hips, both above
\* the threshold, have another midpoint than the recorded offset.
C3_LaterHipsIgnored ==
    /\ ~firstResult
    /\ call.results # Null
    /\ IsPresent(call.results.ea)
    /\ POSE_LANDMARKS.RIGHT_HIP \in DOMAIN call.results.ea
    /\ call.results.ea[POSE_LANDMARKS.LEFT_HIP].visibility > VISIBILITY_THRESHOLD
    /\ call.results.ea[POSE_LANDMARKS.RIGHT_HIP].visibility > VISIBILITY_THRESHOLD
    /\ call.results.ea[POSE_LANDMARKS.LEFT_HIP].y + call.results.ea[POSE_LANDMARKS.RIGHT_HIP].y
           # 2 * midHipBase.y
    /\ midHipBase.y # 0

\* Every face landmark the step's face list holds had updatePosition called.
FaceListApplied ==
    \A i \in DOMAIN faceLandmarks :
        i < ArrLen(call'.results.faceLandmarks) =>
            /\ faceLandmarks'[i].t = faceLandmarks[i].t + 1
            /\ GateAccepts(cloneableInputResults'.faceLandmarks[i].visibility) =>
                   faceLandmarks'[i].visibility = cloneableInputResults'.faceLandmarks[i].visibility

\* Every pose landmark the step's pose list holds had updatePosition called.
PoseListApplied ==
    \A i \in DOMAIN poseLandmarks :
        i < ArrLen(call'.results.ea) =>
            /\ poseLandmarks'[i].t = poseLandmarks[i].t + 1
            /\ GateAccepts(PoseGiven(i).visibility) =>
                   poseLandmarks'[i].visibility = PoseGiven(i).visibility

\* C4 (as claimed): a frame without the pose list leaves every pose landmark, the
\* offset and the latch unchanged; a frame without the face list leaves every
\* face landmark unchanged; the other set, if present, is still updated; a call
\* with a null results object changes no state at all.
C4_AbsentInputTouchesNothing ==
    [][IsProcessStep =>
        /\ call'.results = Null => UNCHANGED poses
        /\ (call'.results # Null /\ ~HasEa) =>
              /\ UNCHANGED <<poseLandmarks, midHipBase, firstResult>>
              /\ HasFace => FaceListApplied
        /\ (call'.results # Null /\ ~HasFace) =>
              /\ UNCHANGED faceLandmarks
              /\ HasEa => PoseListApplied]_vars

\* C4 (amended): as claimed, but a call with a null results object does change
\* one field, cloneableInputResults, which becomes null (and nothing else); and
\* a present pose list is updated unless it is too short to hold the hips the
\* calibration test reads, in which case the call throws with the pose set, the
\* offset and the latch unchanged.
C4_AbsentSetUntouched ==
    [][IsProcessStep =>
        /\ call'.results = Null =>
              /\ cloneableInputResults' = Null
              /\ UNCHANGED <<inputPoseLandmarks, poseLandmarks, inputFaceLandmarks,
                             faceLandmarks, cloneablePoseLandmarks, faceNormals,
                             faceMeshLandmarkIndexList, faceMeshLandmarkList, midHipBase,
                             firstResult>>
        /\ (call'.results # Null /\ ~HasEa) =>
              /\ UNCHANGED <<poseLandmarks, midHipBase, firstResult>>
              /\ HasFace => FaceListApplied
        /\ (call'.results # Null /\ ~HasFace) =>
              /\ UNCHANGED faceLandmarks
              /\ (HasEa /\ ~EaThrowsEarly) => PoseListApplied
              /\ EaThrowsEarly =>
                    /\ call'.outcome = "threw"
                    /\ UNCHANGED <<poseLandmarks, midHipBase, firstResult>>]_vars

\* C4's case: the last frame held the face list and no pose list, after an
\* earlier frame had calibrated and moved the pose set.
C4_FaceOnlyAfterPose ==
    /\ call.results # Null
    /\ ~IsPresent(call.results.ea)
    /\ IsPresent(call.results.faceLandmarks)
    /\ ~firstResult
    /\ poseLandmarks[0].t > 0
    /\ faceLandmarks[0].t > 0

\* C5: a frame that feeds a landmark the confidence 0.3 leaves its position and
\* stored confidence exactly as they were, whatever the raw position and dt, so
\* N such frames in a row leave them as before the first; and process()
\* returns, without raising, on every such frame whose lists have their length.
C5_LowConfidenceFreezes ==
    [][(IsProcessStep /\ HasEa) =>
        \A i \in DOMAIN poseLandmarks \cap DOMAIN call'.results.ea :
            call'.results.ea[i].visibility = 300 =>
                /\ Frozen(poseLandmarks[i], poseLandmarks'[i])
                /\ ArrLen(call'.results.ea) = POSE_LANDMARK_LENGTH =>
                       call'.outcome = "returned"]_vars

\* C5's case: a landmark accepted a position in the first frame and was then fed
\* 0.3 in two frames in a row, the last with another raw position than it holds.
C5_FrozenOverTwoFrames ==
    /\ call.results # Null
    /\ IsPresent(call.results.ea)
    /\ \E i \in DOMAIN poseLandmarks \cap DOMAIN call.results.ea :
        /\ call.results.ea[i].visibility = 300
        /\ poseLandmarks[i].t = 3
        /\ poseLandmarks[i].oneEuroVectorFilter.started
        /\ poseLandmarks[i].oneEuroVectorFilter.t_prev = 1
        /\ poseLandmarks[i].visibility = 900
        /\ poseLandmarks[i].pos.x # call.results.ea[i].x

\* C6 (as claimed): a pose list whose length is not POSE_LANDMARK_LENGTH changes
\* no filtered landmark, no calibration state and no snapshot: the frame is
\* rejected or ignored as a whole, never applied in part.
C6_WrongLengthNotApplied ==
    [][(IsProcessStep /\ HasEa /\ ArrLen(call'.results.ea) # POSE_LANDMARK_LENGTH) =>
        UNCHANGED <<poseLandmarks, faceLandmarks, midHipBase, firstResult,
                    cloneablePoseLandmarks, faceNormals, faceMeshLandmarkIndexList,
                    faceMeshLandmarkList>>]_vars

\* The process() requests that were submitted and whose answer the main thread
\* has not received yet.
InFlight == {id \in DOMAIN callbacks : callbacks[id].pc = "awaitProcess"}

\* C7 (as claimed): the caller never has more than one process() request in
\* flight against the Poses instance; a frame that arrives while one is in
\* flight is dropped.
C7_AtMostOneProcessInFlight == Cardinality(InFlight) <= 1

\* The snapshot entry of every pose landmark holds its position and confidence.
SnapshotMatches ==
    \A i \in DOMAIN poseLandmarks :
        /\ i \in DOMAIN cloneablePoseLandmarks
        /\ cloneablePoseLandmarks[i] =
               Landmark(poseLandmarks[i].pos.x, poseLandmarks[i].pos.y, poseLandmarks[i].pos.z,
                        poseLandmarks[i].visibility)

\* C8 (as claimed): after any process() call returns, the snapshot entry of every
\* pose landmark holds the x, y, z of its position and its stored confidence.
C8_SnapshotMatchesAfterReturn == call.outcome = "returned" => SnapshotMatches

\* C8 (amended): after any process() call with a non-null results object
\* returns, the snapshot entry of every pose landmark holds the x, y, z of its
\* position and its stored confidence; a call with a null results object and a
\* call that throws export nothing and leave the snapshot as it was, also when
\* the throwing call has updated the filters (the entries share nothing with
\* the filter state).
C8_SnapshotMatchesAfterExport ==
    /\ []((call.outcome = "returned" /\ call.results # Null) => SnapshotMatches)
    /\ [][(IsProcessStep /\ (call'.outcome = "threw" \/ call'.results = Null)) =>
             cloneablePoseLandmarks' = cloneablePoseLandmarks]_vars

\* C8's case: a call with a pose list returned, and the snapshot holds a pose
\* landmark's filtered position and accepted confidence.
C8_ExportedAfterPoseFrame ==
    /\ call.outcome = "returned"
    /\ call.results # Null
    /\ IsPresent(call.results.ea)
    /\ poseLandmarks[0].pos # Zero
    /\ poseLandmarks[0].visibility = 900
    /\ cloneablePoseLandmarks[0].x = poseLandmarks[0].pos.x
    /\ cloneablePoseLandmarks[0].visibility = 900

\* C9 (as claimed): on the dense-mesh path both lists are rebuilt with the same
\* shape, and every exported point equals the filtered face landmark at its
\* index in x, y, z and confidence.
C9_MeshPointsEqualFiltered ==
    [][(IsProcessStep /\ HasFace /\ call'.outcome = "returned") =>
        /\ DOMAIN faceMeshLandmarkList' = DOMAIN faceMeshLandmarkIndexList'
        /\ \A g \in DOMAIN faceMeshLandmarkIndexList' :
            /\ DOMAIN faceMeshLandmarkList'[g] = DOMAIN faceMeshLandmarkIndexList'[g]
            /\ \A j \in DOMAIN faceMeshLandmarkIndexList'[g] :
                faceMeshLandmarkList'[g][j] =
                    Landmark(faceLandmarks'[faceMeshLandmarkIndexList'[g][j]].pos.x,
                             faceLandmarks'[faceMeshLandmarkIndexList'[g][j]].pos.y,
                             faceLandmarks'[faceMeshLandmarkIndexList'[g][j]].pos.z,
                             faceLandmarks'[faceMeshLandmarkIndexList'[g][j]].visibility)]_vars

\* C10 (as claimed): a frame with the face mesh list takes the key points from
\* the filtered face set; a frame without it but with the pose input takes them
\* from the filtered pose set; a frame with neither the pose input that feeds
\* the pose filters nor the face mesh list does not recompute the normal.
C10_SourceFromAvailability ==
    [][(IsProcessStep /\ call'.results # Null /\ call'.outcome = "returned") =>
        /\ HasFace =>
              faceNormals' = Arr(<<VectorToNormalizedLandmark(
                                     FaceSourceNormal(BuildIndexList, faceLandmarks'))>>)
        /\ (~HasFace /\ HasEa /\ IsPresent(call'.results.poseLandmarks)) =>
              faceNormals' = Arr(<<VectorToNormalizedLandmark(PoseSourceNormal(poseLandmarks'))>>)
        /\ (~HasFace /\ ~HasEa) => faceNormals' = faceNormals]_vars

\* The step reaches calcFaceNormal and finds a source for the key points.
NormalComputed ==
    /\ call'.results # Null
    /\ call'.outcome = "returned"
    /\ HasFace \/ IsPresent(call'.results.poseLandmarks)

\* The key points calcFaceNormal has read in the step: of the face set when the
\* step's results hold the face mesh list, of the pose set otherwise.
KeyPoints ==
    IF HasFace
    THEN [left_eye_inner  |-> faceLandmarks'[faceMeshLandmarkIndexList'[2][8]],
          right_eye_inner |-> faceLandmarks'[faceMeshLandmarkIndexList'[3][8]],
          mouth_left      |-> faceLandmarks'[faceMeshLandmarkIndexList'[6][10]],
          mouth_right     |-> faceLandmarks'[faceMeshLandmarkIndexList'[6][0]]]
    ELSE [left_eye_inner  |-> poseLandmarks'[POSE_LANDMARKS.LEFT_EYE_INNER],
          right_eye_inner |-> poseLandmarks'[POSE_LANDMARKS.RIGHT_EYE_INNER],
          mouth_left      |-> poseLandmarks'[POSE_LANDMARKS.LEFT_RIGHT],
          mouth_right     |-> poseLandmarks'[POSE_LANDMARKS.RIGHT_LEFT]]

\* The key points k are symmetric, coplanar and frontal: one depth, the eye
\* corners level and above the level mouth corners (y grows upward after the
\* transform), both pairs centred on one vertical line, left at the larger x.
IsFrontal(k) ==
    /\ k.left_eye_inner.pos.z = k.right_eye_inner.pos.z
    /\ k.mouth_left.pos.z = k.left_eye_inner.pos.z
    /\ k.mouth_right.pos.z = k.left_eye_inner.pos.z
    /\ k.left_eye_inner.pos.y = k.right_eye_inner.pos.y
    /\ k.mouth_left.pos.y = k.mouth_right.pos.y
    /\ k.left_eye_inner.pos.y > k.mouth_left.pos.y
    /\ k.left_eye_inner.pos.x > k.right_eye_inner.pos.x
    /\ k.mouth_left.pos.x > k.mouth_right.pos.x
    /\ k.left_eye_inner.pos.x + k.right_eye_inner.pos.x
           = k.mouth_left.pos.x + k.mouth_right.pos.x

\* The unit vector along the depth axis, toward the camera.
TowardCamera == Vec(0, 0, 0 - 1000)

\* C11: for every symmetric, coplanar, frontal arrangement of the key points,
\* each of the four triangles of calcFaceNormal, in its fixed winding order, has
\* the unit normal along the depth axis with the same sign (toward the camera,
\* negative z), and the exported aggregate normal is that same unit vector.
C11_FrontalNormalAlongDepthAxis ==
    [][(IsProcessStep /\ NormalComputed /\ IsFrontal(KeyPoints)) =>
        /\ \A i \in 1 .. 4 :
              NormalFromVertices(
                  Vertices(KeyPoints.left_eye_inner, KeyPoints.right_eye_inner,
                           KeyPoints.mouth_left, KeyPoints.mouth_right)[i], FALSE) = TowardCamera
        /\ faceNormals' = Arr(<<VectorToNormalizedLandmark(TowardCamera)>>)]_vars

\* C11's case: the normal was computed on the face path from a frontal
\* arrangement with the mouth wider than the eyes.
C11_FrontalTrapezoidOnFacePath ==
    /\ call.outcome = "returned"
    /\ IsPresent(call.results.faceLandmarks)
    /\ faceLandmarks[12].pos.z = faceLandmarks[36].pos.z
    /\ faceLandmarks[12].pos.y = faceLandmarks[21].pos.y
    /\ faceLandmarks[12].pos.y > faceLandmarks[36].pos.y
    /\ faceLandmarks[12].pos.x - faceLandmarks[21].pos.x = 100
    /\ faceLandmarks[36].pos.x - faceLandmarks[26].pos.x = 280
    /\ faceNormals = Arr(<<VectorToNormalizedLandmark(TowardCamera)>>)

\* The step is a call of updateFilterParameters on pose landmark i.
IsUpdateParametersStep(i) ==
    /\ call' # call
    /\ call'.outcome = "set"
    /\ call'.index = i

\* C12 (as claimed): updateFilterParameters sets every provided parameter,
\* beta = 0 included, to the provided value, keeps an omitted one, and leaves
\* the landmark's position, stored confidence, time counter and accumulated
\* filter state as they were.
C12_ProvidedParametersSet ==
    [][\A i \in DOMAIN poseLandmarks :
        IsUpdateParametersStep(i) =>
            /\ poseLandmarks'[i].oneEuroVectorFilter.min_cutoff =
                   IF call'.min_cutoff # Undefined THEN call'.min_cutoff
                   ELSE poseLandmarks[i].oneEuroVectorFilter.min_cutoff
            /\ poseLandmarks'[i].oneEuroVectorFilter.beta =
                   IF call'.beta # Undefined THEN call'.beta
                   ELSE poseLandmarks[i].oneEuroVectorFilter.beta
            /\ poseLandmarks'[i] =
                   [poseLandmarks[i] EXCEPT
                       !.oneEuroVectorFilter.min_cutoff =
                           poseLandmarks'[i].oneEuroVectorFilter.min_cutoff,
                       !.oneEuroVectorFilter.beta = poseLandmarks'[i].oneEuroVectorFilter.beta]]_vars

\* What preProcessLandmarks makes of the raw entry with the vertical offset b.
Flipped(raw, b) == Landmark(raw.x, b - raw.y, raw.z, raw.visibility)

\* The landmark was handed the entry given: updatePosition ran on it.
HandedTo(before, after, given) ==
    /\ after.t = before.t + 1
    /\ IF GateAccepts(given.visibility)
       THEN Replaced(before, after, given)
       ELSE Frozen(before, after)

\* C13: every landmark of a present list is handed the raw position with the
\* vertical axis flipped plus the offset: (x, -y + b, z) for the pose set, where
\* b is the calibrated hip midpoint's vertical value (0 before calibration), and
\* (x, -y, z) for the face set; x and z are never offset; in the calibrating
\* frame the midpoint of the two transformed hips has vertical coordinate 0.
C13_FlipPlusOffset ==
    [][IsProcessStep =>
        /\ \A i \in DOMAIN poseLandmarks :
              PoseUpdateCalled(i) =>
                  /\ PoseGiven(i) = Flipped(call'.results.ea[i], midHipBase'.y)
                  /\ HandedTo(poseLandmarks[i], poseLandmarks'[i],
                              Flipped(call'.results.ea[i], midHipBase'.y))
        /\ \A i \in DOMAIN faceLandmarks :
              FaceUpdateCalled(i) =>
                  /\ cloneableInputResults'.faceLandmarks[i] =
                         Flipped(call'.results.faceLandmarks[i], 0)
                  /\ HandedTo(faceLandmarks[i], faceLandmarks'[i],
                              Flipped(call'.results.faceLandmarks[i], 0))
        /\ firstResult' => midHipBase' = Zero
        /\ (firstResult /\ ~firstResult') =>
              PoseGiven(POSE_LANDMARKS.LEFT_HIP).y + PoseGiven(POSE_LANDMARKS.RIGHT_HIP).y = 0]_vars

\* C13's case: a calibrated instance was handed a pose list whose hips have
\* another midpoint than the offset, and a face list, and both were transformed.
C13_OffsetAppliedAfterCalibration ==
    /\ ~firstResult
    /\ midHipBase.y # 0
    /\ midHipBase.x # 0
    /\ call.outcome = "returned"
    /\ call.results # Null
    /\ IsPresent(call.results.ea)
    /\ IsPresent(call.results.faceLandmarks)
    /\ call.results.ea[POSE_LANDMARKS.LEFT_HIP].y + call.results.ea[POSE_LANDMARKS.RIGHT_HIP].y
           # 2 * midHipBase.y
    /\ poseLandmarks[0].t >= 2
    /\ cloneableInputResults.ea[0].y = midHipBase.y - call.results.ea[0].y
    /\ cloneableInputResults.ea[0].x = call.results.ea[0].x
    /\ cloneableInputResults.faceLandmarks[0].y = 0 - call.results.faceLandmarks[0].y
    /\ call.results.faceLandmarks[0].y # 0

\* The triangles of the step's key points.
StepTriangles ==
    Vertices(KeyPoints.left_eye_inner, KeyPoints.right_eye_inner,
             KeyPoints.mouth_left, KeyPoints.mouth_right)

\* The triangle has an edge of length zero or two collinear edges: the cross
\* product of its two edge vectors is the zero vector.
IsDegenerate(triangle) ==
    Cross(VSub(triangle[2].pos, triangle[1].pos), VSub(triangle[3].pos, triangle[2].pos)) = Zero

\* What the triangle adds to the sum when degenerate triangles are left out.
Contribution(triangle) ==
    IF IsDegenerate(triangle) THEN Zero ELSE NormalFromVertices(triangle, FALSE)

\* The vector is the zero vector or has every component within unit length:
\* none of its components is an undefined or unbounded number.
IsDefinedVector(v) ==
    /\ v.x \in -1000 .. 1000
    /\ v.y \in -1000 .. 1000
    /\ v.z \in -1000 .. 1000

ReadsPending(id) ==
    \/ callbacks[id].pc = "awaitRead"
    \/ /\ callbacks[id].pc = "awaitProcess"
       /\ \E k \in DOMAIN responses :
             responses[k].id = id /\ responses[k].type = "APPLY" /\ responses[k].ok

\* C15 (as claimed): what a frame's callback reads back reflects the state its
\* own process() call produced: under every interleaving, the worker runs no
\* process() call while an earlier frame's reads are pending.
C15_NoProcessBetweenReads ==
    [][IsProcessStep => \A id \in DOMAIN callbacks : ~ReadsPending(id)]_vars

====
